---------------------------- MODULE Spec2Model ----------------------------
(***************************************************************************)
(* Model of cass::Collection and its C API (src/src/collection.cpp):       *)
(* construction and reference counting, the append operations, and the     *)
(* three serialization entry points encode(), encode_with_length(version)  *)
(* and get_size_with_length(version).                                      *)
(*                                                                         *)
(* A byte is a number in 0..255, a byte string is a sequence of bytes.     *)
(* A Buffer is [size |-> bytes allocated by Buffer(n),                     *)
(*              data |-> bytes written, in order, from offset 0].          *)
(* Every write of collection.cpp goes to the running position, so the      *)
(* written bytes are a sequence; Len(data) = size says that the writes     *)
(* fill the allocation exactly.                                            *)
(***************************************************************************)
EXTENDS Integers, Sequences, FiniteSets, TLC

VARIABLES
  alive,       \* id -> "none" | "live" | "deleted": the Collection object
  data_type_,  \* id -> the DataType of the collection (Collection::data_type_)
  items_,      \* id -> sequence of byte strings (Collection::items_)
  ref_count_,  \* id -> the reference count (RefCounted::ref_count_)
  handle,      \* id -> the API caller holds the CassCollection* and has not freed it
  owners,      \* id -> references held by other owners (acquired, not yet released)
  nested,      \* the last successful append of a nested collection
  ret          \* what the last call returned

vars == <<alive, data_type_, items_, ref_count_, handle, owners, nested, ret>>

-----------------------------------------------------------------------------
(* Bounds of the model *)

MaxItems == 2
MaxVersion == 3
MaxOwners == 1

(* Program constants *)

SizeofInt32 == 4
SizeofUint16 == 2
V3 == 3
UINT16_MAX == 65535

Ids == {1, 2}
Versions == 1..MaxVersion

CollectionTypes == {"LIST", "SET", "MAP", "TUPLE"}

(* The declared types handed to cass_collection_new_from_data_type: a list *)
(* of lists, a map from int to list, a tuple <list, map, ...> and two      *)
(* types that are neither a collection nor a tuple.                        *)
DataTypes ==
  { [value_type |-> "LIST",  types |-> <<"LIST">>],
    [value_type |-> "MAP",   types |-> <<"INT", "LIST">>],
    [value_type |-> "TUPLE", types |-> <<"LIST", "MAP">>],
    [value_type |-> "INT",   types |-> <<>>],
    [value_type |-> "UDT",   types |-> <<>>] }

NoType == [value_type |-> "NONE", types |-> <<>>]

(* Byte strings handed to the primitive appends.  BigBytes is one byte     *)
(* longer than a uint16 can count.                                         *)
BigBytes == [i \in 1..(UINT16_MAX + 1) |-> 0]
SmallBytes == {<<>>, <<7>>}
Bytes == SmallBytes \cup {BigBytes}

(* User type values: the fields, already encoded.                          *)
UserTypeValues == { [fields |-> <<<<1>>, <<2, 3>>>>] }

NoBuffer == [size |-> 0, data |-> <<>>]
NoNested == [parent |-> 0, child |-> 0, index |-> 0, buf |-> <<>>]
NoRet == [op |-> "none", id |-> 0, version |-> 0, value |-> "", rc |-> "CASS_OK",
          size |-> 0, buf |-> NoBuffer]

(* What a call leaves behind: the call (op, id, version), the returned     *)
(* status, and the returned size or Buffer.                                *)
Ret(op, id, version, rc, size, buf) ==
  [op |-> op, id |-> id, version |-> version, value |-> "", rc |-> rc,
   size |-> size, buf |-> buf]

(* The same for an append of a nested value of type value_type.            *)
RetAppend(op, id, value_type, rc) ==
  [op |-> op, id |-> id, version |-> 0, value |-> value_type, rc |-> rc,
   size |-> 0, buf |-> NoBuffer]

-----------------------------------------------------------------------------
(* Integer encoders: big-endian, the value narrowed to the field's width   *)
(* (its low-order 4 or 2 bytes).                                           *)

encode_int32(value) ==
  << (value \div 16777216) % 256, (value \div 65536) % 256,
     (value \div 256) % 256, value % 256 >>

encode_uint16(value) ==
  LET v == value % (UINT16_MAX + 1)
  IN  << (v \div 256) % 256, v % 256 >>

(* The reader of such a field, used to state the properties.              *)
RECURSIVE decode_be(_)
decode_be(bytes) ==
  IF bytes = <<>> THEN 0
  ELSE decode_be(SubSeq(bytes, 1, Len(bytes) - 1)) * 256 + bytes[Len(bytes)]


-----------------------------------------------------------------------------
(* DataType predicates and Collection accessors *)

is_collection(dt) == dt.value_type \in {"LIST", "SET", "MAP"}

is_tuple(dt) == dt.value_type = "TUPLE"

type(c) == data_type_[c].value_type

get_count(c) == Len(items_[c])

-----------------------------------------------------------------------------
(* The layout algorithm *)

RECURSIVE ItemsSize(_, _)
ItemsSize(items, num_bytes_for_size) ==
  IF items = <<>> THEN 0
  ELSE num_bytes_for_size + Len(Head(items)) + ItemsSize(Tail(items), num_bytes_for_size)

get_items_size(c, num_bytes_for_size) == ItemsSize(items_[c], num_bytes_for_size)

RECURSIVE ItemsInt32(_)
ItemsInt32(items) ==
  IF items = <<>> THEN <<>>
  ELSE encode_int32(Len(Head(items))) \o Head(items) \o ItemsInt32(Tail(items))

encode_items_int32(c) == ItemsInt32(items_[c])

RECURSIVE ItemsUint16(_)
ItemsUint16(items) ==
  IF items = <<>> THEN <<>>
  ELSE encode_uint16(Len(Head(items))) \o Head(items) \o ItemsUint16(Tail(items))

encode_items_uint16(c) == ItemsUint16(items_[c])

get_items_size_version(c, version) ==
  IF version >= V3 \/ type(c) = "TUPLE"
  THEN get_items_size(c, SizeofInt32)
  ELSE get_items_size(c, SizeofUint16)

encode_items(c, version) ==
  IF version >= V3 \/ type(c) = "TUPLE"
  THEN encode_items_int32(c)
  ELSE encode_items_uint16(c)

get_size_with_length(c, version) ==
  IF version >= V3
  THEN SizeofInt32 + SizeofInt32 + get_items_size(c, SizeofInt32)
  ELSE SizeofInt32 + SizeofUint16 + get_items_size(c, SizeofUint16)

(* A faulty variant of encode: the inner encoding written with the 2-byte *)
(* widths of the old protocol versions.                                    *)
encode_uint16_widths(c) ==
  IF type(c) = "TUPLE"
  THEN [size |-> get_items_size(c, SizeofUint16),
        data |-> encode_items_uint16(c)]
  ELSE [size |-> SizeofUint16 + get_items_size(c, SizeofUint16),
        data |-> encode_uint16(get_count(c)) \o encode_items_uint16(c)]

encode(c) ==
  IF type(c) = "TUPLE"
  THEN [size |-> get_items_size(c, SizeofInt32),
        data |-> encode_items_int32(c)]
  ELSE [size |-> SizeofInt32 + get_items_size(c, SizeofInt32),
        data |-> encode_int32(get_count(c)) \o encode_items_int32(c)]

(* A faulty variant of encode_with_length: the write branch tests         *)
(* version > 3 where the sizing tests version >= 3.                        *)
encode_with_length_off_by_one(c, version) ==
  IF type(c) = "TUPLE"
  THEN LET internal_size == get_items_size(c, SizeofInt32)
       IN  [size |-> SizeofInt32 + internal_size,
            data |-> encode_int32(internal_size) \o encode_items_int32(c)]
  ELSE LET internal_size ==
             IF version >= V3
             THEN SizeofInt32 + get_items_size(c, SizeofInt32)
             ELSE SizeofUint16 + get_items_size(c, SizeofUint16)
       IN  [size |-> SizeofInt32 + internal_size,
            data |-> encode_int32(internal_size)
                     \o (IF version > V3
                         THEN encode_int32(get_count(c)) \o encode_items_int32(c)
                         ELSE encode_uint16(get_count(c)) \o encode_items_uint16(c))]

(* A faulty variant of encode_with_length: the count field left out of    *)
(* the size.                                                               *)
encode_with_length_no_count_size(c, version) ==
  IF type(c) = "TUPLE"
  THEN LET internal_size == get_items_size(c, SizeofInt32)
       IN  [size |-> SizeofInt32 + internal_size,
            data |-> encode_int32(internal_size) \o encode_items_int32(c)]
  ELSE LET internal_size ==
             IF version >= V3
             THEN get_items_size(c, SizeofInt32)
             ELSE get_items_size(c, SizeofUint16)
       IN  [size |-> SizeofInt32 + internal_size,
            data |-> encode_int32(internal_size)
                     \o (IF version >= V3
                         THEN encode_int32(get_count(c)) \o encode_items_int32(c)
                         ELSE encode_uint16(get_count(c)) \o encode_items_uint16(c))]

encode_with_length(c, version) ==
  IF type(c) = "TUPLE"
  THEN LET internal_size == get_items_size(c, SizeofInt32)
       IN  [size |-> SizeofInt32 + internal_size,
            data |-> encode_int32(internal_size) \o encode_items_int32(c)]
  ELSE LET internal_size ==
             IF version >= V3
             THEN SizeofInt32 + get_items_size(c, SizeofInt32)
             ELSE SizeofUint16 + get_items_size(c, SizeofUint16)
       IN  [size |-> SizeofInt32 + internal_size,
            data |-> encode_int32(internal_size)
                     \o (IF version >= V3
                         THEN encode_int32(get_count(c)) \o encode_items_int32(c)
                         ELSE encode_uint16(get_count(c)) \o encode_items_uint16(c))]

(* UserTypeValue::encode(): each field behind a 4-byte length.             *)
user_type_encode(value) ==
  [size |-> ItemsSize(value.fields, SizeofInt32), data |-> ItemsInt32(value.fields)]

-----------------------------------------------------------------------------
(* The validation guard (CASS_COLLECTION_CHECK_TYPE).  The slot of the     *)
(* declared type the next item is compared with: the element type of a     *)
(* list or set, the key or value type of a map by the parity of the items, *)
(* the field type of a tuple at the next position.  No declared sub-types, *)
(* or no field left, means nothing to compare with.                        *)

Slot(c) ==
  LET types == data_type_[c].types
      index == Len(items_[c])
  IN  IF types = <<>> THEN "ANY"
      ELSE IF type(c) \in {"LIST", "SET"} THEN types[1]
      ELSE IF type(c) = "MAP" THEN types[(index % 2) + 1]
      ELSE IF index < Len(types) THEN types[index + 1]
      ELSE "ANY"

check(c, value_type) ==
  IF Slot(c) = "ANY" \/ Slot(c) = value_type
  THEN "CASS_OK"
  ELSE "CASS_ERROR_LIB_INVALID_VALUE_TYPE"

-----------------------------------------------------------------------------
(* Reference counting (RefCounted): the object is deleted when a release   *)
(* brings the count to zero.                                               *)

inc_ref(c) == ref_count_' = [ref_count_ EXCEPT ![c] = @ + 1]

dec_ref(c) ==
  /\ ref_count_' = [ref_count_ EXCEPT ![c] = @ - 1]
  /\ alive' = [alive EXCEPT ![c] = IF ref_count_[c] - 1 = 0 THEN "deleted" ELSE @]

-----------------------------------------------------------------------------
Init ==
  /\ alive = [c \in Ids |-> "none"]
  /\ data_type_ = [c \in Ids |-> NoType]
  /\ items_ = [c \in Ids |-> <<>>]
  /\ ref_count_ = [c \in Ids |-> 0]
  /\ handle = [c \in Ids |-> FALSE]
  /\ owners = [c \in Ids |-> 0]
  /\ nested = NoNested
  /\ ret = NoRet

(* new cass::Collection(...): a fresh object with no items and count 0.    *)
Construct(c, dt) ==
  /\ alive[c] = "none"
  /\ alive' = [alive EXCEPT ![c] = "live"]
  /\ data_type_' = [data_type_ EXCEPT ![c] = dt]
  /\ items_' = [items_ EXCEPT ![c] = <<>>]
  /\ handle' = [handle EXCEPT ![c] = TRUE]

cass_collection_new(c, t) ==
  /\ Construct(c, [value_type |-> t, types |-> <<>>])
  /\ inc_ref(c)
  /\ ret' = Ret("new", c, 0, "CASS_OK", 0, NoBuffer)
  /\ UNCHANGED <<owners, nested>>

cass_collection_new_from_data_type(c, dt) ==
  /\ alive[c] = "none"
  /\ IF ~is_collection(dt) /\ ~is_tuple(dt)
     THEN /\ ret' = Ret("new_from_data_type", c, 0, "NULL", 0, NoBuffer)
          /\ UNCHANGED <<alive, data_type_, items_, ref_count_, handle, owners, nested>>
     ELSE /\ Construct(c, dt)
          /\ ret' = Ret("new_from_data_type", c, 0, "CASS_OK", 0, NoBuffer)
          /\ UNCHANGED <<ref_count_, owners, nested>>

(* The caller's one release of its handle.                                 *)
cass_collection_free(c) ==
  /\ handle[c]
  /\ handle' = [handle EXCEPT ![c] = FALSE]
  /\ \/ /\ alive[c] = "live"
        /\ dec_ref(c)
        /\ ret' = Ret("free", c, 0, "CASS_OK", 0, NoBuffer)
     \/ /\ alive[c] = "deleted"      \* the handle dangles: a use after free
        /\ ret' = Ret("free", c, 0, "USE_AFTER_FREE", 0, NoBuffer)
        /\ UNCHANGED <<alive, ref_count_>>
  /\ UNCHANGED <<data_type_, items_, owners, nested>>

(* Another owner (a SharedRefPtr copy) acquires / releases a reference.    *)
Acquire(c) ==
  /\ alive[c] = "live"
  /\ handle[c] \/ owners[c] > 0
  /\ owners[c] < MaxOwners
  /\ inc_ref(c)
  /\ owners' = [owners EXCEPT ![c] = @ + 1]
  /\ ret' = Ret("acquire", c, 0, "CASS_OK", 0, NoBuffer)
  /\ UNCHANGED <<alive, data_type_, items_, handle, nested>>

Release(c) ==
  /\ alive[c] = "live"
  /\ owners[c] > 0
  /\ dec_ref(c)
  /\ owners' = [owners EXCEPT ![c] = @ - 1]
  /\ ret' = Ret("release", c, 0, "CASS_OK", 0, NoBuffer)
  /\ UNCHANGED <<data_type_, items_, handle, nested>>

-----------------------------------------------------------------------------
(* The append operations *)

Usable(c) == alive[c] = "live" /\ Len(items_[c]) < MaxItems

push_back(c, bytes) == items_' = [items_ EXCEPT ![c] = Append(@, bytes)]

(* cass_collection_append_bytes: the raw byte string is the item.          *)
cass_collection_append_bytes(c, value) ==
  /\ Usable(c)
  /\ push_back(c, value)
  /\ ret' = Ret("append_bytes", c, 0, "CASS_OK", 0, NoBuffer)
  /\ UNCHANGED <<alive, data_type_, ref_count_, handle, owners, nested>>

(* A faulty variant of append_collection: the item is pushed before the   *)
(* type check decides the status.                                          *)
append_collection_push_first(c, value) ==
  /\ Usable(c) /\ alive[value] = "live"
  /\ push_back(c, encode(value).data)
  /\ nested' = [parent |-> c, child |-> value, index |-> Len(items_[c]) + 1,
                buf |-> encode(value).data]
  /\ ret' = RetAppend("append_collection", c, type(value), check(c, type(value)))
  /\ UNCHANGED <<alive, data_type_, ref_count_, handle, owners>>

(* Collection::append(const Collection* value) *)
append_collection(c, value) ==
  /\ Usable(c) /\ alive[value] = "live"
  /\ IF check(c, type(value)) # "CASS_OK"
     THEN /\ ret' = RetAppend("append_collection", c, type(value), check(c, type(value)))
          /\ UNCHANGED <<items_, nested>>
     ELSE /\ push_back(c, encode(value).data)
          /\ nested' = [parent |-> c, child |-> value, index |-> Len(items_[c]) + 1,
                        buf |-> encode(value).data]
          /\ ret' = RetAppend("append_collection", c, type(value), "CASS_OK")
  /\ UNCHANGED <<alive, data_type_, ref_count_, handle, owners>>

(* Collection::append(const UserTypeValue* value) *)
append_user_type(c, value) ==
  /\ Usable(c)
  /\ IF check(c, "UDT") # "CASS_OK"
     THEN /\ ret' = RetAppend("append_user_type", c, "UDT", check(c, "UDT"))
          /\ UNCHANGED items_
     ELSE /\ push_back(c, user_type_encode(value).data)
          /\ ret' = RetAppend("append_user_type", c, "UDT", "CASS_OK")
  /\ UNCHANGED <<alive, data_type_, ref_count_, handle, owners, nested>>

-----------------------------------------------------------------------------
(* The read operations: each leaves the collection alone and returns.      *)

Frame == UNCHANGED <<alive, data_type_, items_, ref_count_, handle, owners, nested>>

GetCount(c) ==
  /\ alive[c] = "live"
  /\ ret' = Ret("get_count", c, 0, "CASS_OK", get_count(c), NoBuffer)
  /\ Frame

GetSizeWithLength(c, version) ==
  /\ alive[c] = "live"
  /\ ret' = Ret("get_size_with_length", c, version, "CASS_OK",
                get_size_with_length(c, version), NoBuffer)
  /\ Frame

(* A faulty variant of Encode: the encoded buffer is kept among the items. *)
EncodeKeeping(c) ==
  /\ alive[c] = "live"
  /\ ret' = Ret("encode", c, 0, "CASS_OK", 0, encode(c))
  /\ items_' = [items_ EXCEPT ![c] = Append(@, encode(c).data)]
  /\ UNCHANGED <<alive, data_type_, ref_count_, handle, owners, nested>>

Encode(c) ==
  /\ alive[c] = "live"
  /\ ret' = Ret("encode", c, 0, "CASS_OK", 0, encode(c))
  /\ Frame

EncodeWithLength(c, version) ==
  /\ alive[c] = "live"
  /\ ret' = Ret("encode_with_length", c, version, "CASS_OK", 0,
                encode_with_length(c, version))
  /\ Frame

ReadOps == {"get_count", "get_size_with_length", "encode", "encode_with_length"}

-----------------------------------------------------------------------------
(* Specifications.  The whole program is one state machine; its state      *)
(* space is explored in four parts, each with every action its claims      *)
(* are about:                                                              *)
(*   SpecWire  one collection: construction, primitive appends (the long   *)
(*             byte string included) and every read operation;             *)
(*   SpecNest  two collections: construction and all appends of short      *)
(*             items, nested ones included, in both directions;            *)
(*   SpecBig   two collections: construction, appends of the long byte     *)
(*             string and nested appends;                                  *)
(*   SpecLife  two collections: construction and reference counting.       *)

Create(c) ==
  \/ \E t \in CollectionTypes : cass_collection_new(c, t)
  \/ \E dt \in DataTypes : cass_collection_new_from_data_type(c, dt)

NextWire ==
  \/ Create(1)
  \/ \E b \in Bytes : cass_collection_append_bytes(1, b)
  \/ GetCount(1)
  \/ Encode(1)
  \/ \E v \in Versions : GetSizeWithLength(1, v)
  \/ \E v \in Versions : EncodeWithLength(1, v)

SpecWire == Init /\ [][NextWire]_vars

NextNest ==
  \/ \E c \in Ids : Create(c)
  \/ \E c \in Ids, b \in SmallBytes : cass_collection_append_bytes(c, b)
  \/ \E c \in Ids : \E value \in Ids \ {c} : append_collection(c, value)
  \/ \E c \in Ids, value \in UserTypeValues : append_user_type(c, value)

SpecNest == Init /\ [][NextNest]_vars

NextBig ==
  \/ \E c \in Ids : Create(c)
  \/ \E c \in Ids : cass_collection_append_bytes(c, BigBytes)
  \/ \E c \in Ids : \E value \in Ids \ {c} : append_collection(c, value)

SpecBig == Init /\ [][NextBig]_vars

NextLife ==
  \/ \E c \in Ids : Create(c)
  \/ \E c \in Ids : cass_collection_free(c)
  \/ \E c \in Ids : Acquire(c)
  \/ \E c \in Ids : Release(c)

SpecLife == Init /\ [][NextLife]_vars

-----------------------------------------------------------------------------
(* Vocabulary of the properties *)

(* The big-endian number in the w bytes of data after offset off; -1 when  *)
(* data ends before.                                                       *)
Field(data, off, w) ==
  IF off + w <= Len(data) THEN decode_be(SubSeq(data, off + 1, off + w)) ELSE -1

(* What a field of w bytes keeps of x: its low-order w bytes.  Every size  *)
(* of the model is below 2^31, so a 4-byte field keeps it whole.           *)
Narrow(w, x) == IF w = SizeofUint16 THEN x % (UINT16_MAX + 1) ELSE x

(* The width the layout table gives a collection at a protocol version.    *)
Width(c, version) ==
  IF version >= V3 \/ type(c) = "TUPLE" THEN SizeofInt32 ELSE SizeofUint16

(* data is laid out as: [4-byte total length, if total] [w-byte count, if  *)
(* count] then, per item in order, a w-byte length and the item's bytes.   *)
(* With exact, the count and length fields hold the numbers themselves;    *)
(* without, what w bytes keep of them.                                     *)
Layout(data, items, w, total, count, exact) ==
  LET tw == IF total THEN SizeofInt32 ELSE 0
      cw == IF count THEN w ELSE 0
      Off(i) == tw + cw + ItemsSize(SubSeq(items, 1, i - 1), w)
      Val(x) == IF exact THEN x ELSE Narrow(w, x)
  IN  /\ Len(data) = tw + cw + ItemsSize(items, w)
      /\ total => Field(data, 0, SizeofInt32) = Len(data) - SizeofInt32
      /\ count => Field(data, tw, w) = Val(Len(items))
      /\ \A i \in 1..Len(items) :
           /\ Field(data, Off(i), w) = Val(Len(items[i]))
           /\ SubSeq(data, Off(i) + w + 1, Off(i) + w + Len(items[i])) = items[i]

(* A reader of the documented layout: n items from offset pos, each a      *)
(* w-byte length and that many bytes.                                      *)
RECURSIVE ParseItems(_, _, _, _)
ParseItems(data, pos, w, n) ==
  IF n = 0 THEN [ok |-> pos = Len(data), items |-> <<>>]
  ELSE IF Field(data, pos, w) < 0 \/ pos + w + Field(data, pos, w) > Len(data)
       THEN [ok |-> FALSE, items |-> <<>>]
       ELSE LET len == Field(data, pos, w)
                rest == ParseItems(data, pos + w + len, w, n - 1)
            IN  [ok |-> rest.ok,
                 items |-> <<SubSeq(data, pos + w + 1, pos + w + len)>> \o rest.items]

(* total length, count field, then count length-prefixed items             *)
Parse(data, w) ==
  LET total == Field(data, 0, SizeofInt32)
      count == Field(data, SizeofInt32, w)
  IN  IF total # Len(data) - SizeofInt32 \/ count < 0
         \/ count * w > Len(data) - SizeofInt32 - w
      THEN [ok |-> FALSE, count |-> count, items |-> <<>>]
      ELSE LET r == ParseItems(data, SizeofInt32 + w, w, count)
           IN  [ok |-> r.ok, count |-> count, items |-> r.items]

(* What a read operation returns in the current state.                     *)
ReadResult(op, c, version) ==
  CASE op = "get_count" -> Ret(op, c, 0, "CASS_OK", get_count(c), NoBuffer)
    [] op = "get_size_with_length" ->
         Ret(op, c, version, "CASS_OK", get_size_with_length(c, version), NoBuffer)
    [] op = "encode" -> Ret(op, c, 0, "CASS_OK", 0, encode(c))
    [] op = "encode_with_length" ->
         Ret(op, c, version, "CASS_OK", 0, encode_with_length(c, version))

Serialized == ret.op = "encode_with_length"

-----------------------------------------------------------------------------
(* Properties of the serialization (SpecWire) *)

(* C1: for every kind, version and item sequence, get_size_with_length(v)  *)
(* is the byte length of the buffer encode_with_length(v) produces.        *)
C1_SizeEqualsEncodedLength ==
  Serialized => get_size_with_length(ret.id, ret.version) = ret.buf.size

(* The items as encode_items(version) writes them into the                 *)
(* get_items_size(version) bytes its caller allocates: per item a length   *)
(* of the table's width and the item's bytes, filling those bytes exactly. *)
ItemsOfWidth(c, version, exact) ==
  /\ Layout(encode_items(c, version), items_[c], Width(c, version), FALSE, FALSE, exact)
  /\ get_items_size_version(c, version) = Len(encode_items(c, version))

(* C2 as stated: the buffer of encode_with_length(v) is a 4-byte total     *)
(* length, a count field of width w holding the number of items, then per  *)
(* item a w-byte length holding the item's length and the item's bytes,    *)
(* w = 4 if v >= 3 or the kind is TUPLE, else 2; a TUPLE has the count     *)
(* field too.                                                              *)
C2_DocumentedLayout ==
  Serialized =>
    /\ Layout(ret.buf.data, items_[ret.id], Width(ret.id, ret.version), TRUE, TRUE, TRUE)
    /\ ItemsOfWidth(ret.id, ret.version, TRUE)

(* C2, amended: as above for LIST, SET and MAP; a TUPLE has no count field *)
(* (total length, then the items behind 4-byte lengths); and each count or *)
(* length field holds the low-order w bytes of its number.                 *)
C2_ActualLayout ==
  Serialized =>
    /\ Layout(ret.buf.data, items_[ret.id], Width(ret.id, ret.version), TRUE,
              type(ret.id) # "TUPLE", FALSE)
    /\ ItemsOfWidth(ret.id, ret.version, FALSE)

C2_Witness ==
  /\ Serialized
  /\ type(ret.id) = "TUPLE"
  /\ ret.version < V3
  /\ Len(items_[ret.id]) >= 2

(* C3 as stated: for every kind, TUPLE included, encode() produces a       *)
(* 4-byte count of the items, then per item a 4-byte length and the bytes, *)
(* and no total length.                                                    *)
C3_InnerLayoutWithCount ==
  ret.op = "encode" =>
    Layout(ret.buf.data, items_[ret.id], SizeofInt32, FALSE, TRUE, TRUE)

(* C3, amended: encode() produces that layout for LIST, SET and MAP; for a *)
(* TUPLE it produces the items behind 4-byte lengths with no count field.  *)
(* Neither has a total length, and the buffer is filled exactly.           *)
C3_InnerLayout ==
  ret.op = "encode" =>
    /\ Layout(ret.buf.data, items_[ret.id], SizeofInt32, FALSE,
              type(ret.id) # "TUPLE", TRUE)
    /\ ret.buf.size = Len(ret.buf.data)

C3_Witness ==
  /\ ret.op = "encode"
  /\ type(ret.id) = "TUPLE"
  /\ Len(items_[ret.id]) >= 2

(* C6: reading the buffer of encode_with_length(v) by the documented       *)
(* layout (total length, count, then count length-prefixed items) gives    *)
(* the number of appended items and, in order, their bytes.                *)
C6_RoundTrip ==
  Serialized =>
    LET p == Parse(ret.buf.data, Width(ret.id, ret.version))
    IN  p.ok /\ p.count = Len(items_[ret.id]) /\ p.items = items_[ret.id]

(* C7: the total-length field of encode_with_length(v) is the number of    *)
(* bytes after it, the writes fill the allocated buffer exactly, and an    *)
(* empty non-tuple collection at version 3 gives 8 bytes, total length 4.  *)
C7_TotalLengthAndFill ==
  Serialized =>
    /\ Len(ret.buf.data) = ret.buf.size
    /\ Field(ret.buf.data, 0, SizeofInt32) = ret.buf.size - SizeofInt32
    /\ (type(ret.id) # "TUPLE" /\ ret.version = V3 /\ items_[ret.id] = <<>>)
         => (ret.buf.size = 8 /\ Field(ret.buf.data, 0, SizeofInt32) = 4)

C7_Witness ==
  /\ Serialized
  /\ type(ret.id) # "TUPLE"
  /\ ret.version = V3
  /\ items_[ret.id] = <<>>
  /\ ret.buf.size = 8

(* C10: in the 2-byte layout (not a TUPLE, version < 3) the count field is *)
(* the number of items and every length field is the length of the item    *)
(* after it: nothing is stored modulo 2^16.                                *)
C10_NoTruncation ==
  (Serialized /\ type(ret.id) # "TUPLE" /\ ret.version < V3) =>
    Layout(ret.buf.data, items_[ret.id], SizeofUint16, TRUE, TRUE, TRUE)

(* C8: a read operation leaves the items and the type of every collection  *)
(* unchanged, and returns what the same call returns right after it.       *)
C8_ReadsLeaveCollection ==
  [][ret'.op \in ReadOps =>
       /\ items_' = items_
       /\ data_type_' = data_type_
       /\ ret' = ReadResult(ret'.op, ret'.id, ret'.version)
       /\ ret' = ReadResult(ret.op, ret.id, ret.version)']_vars

C8_Witness ==
  /\ Serialized
  /\ Len(items_[ret.id]) >= 2

-----------------------------------------------------------------------------
(* Properties of the nested appends (SpecNest, SpecBig) *)

NestedAppends == {"append_collection", "append_user_type"}

Matches(c, value_type) == Slot(c) \in {"ANY", value_type}

(* C4: an append of a nested collection or user type whose type does not   *)
(* match the declared element type returns INVALID_VALUE_TYPE and leaves   *)
(* every item sequence as it was; a matching one returns OK and adds       *)
(* exactly one item at the end, the earlier items kept.                    *)
C4_MismatchLeavesItems ==
  [][ret'.op \in NestedAppends =>
       LET c == ret'.id
       IN  IF Matches(c, ret'.value)
           THEN /\ ret'.rc = "CASS_OK"
                /\ Len(items_'[c]) = Len(items_[c]) + 1
                /\ SubSeq(items_'[c], 1, Len(items_[c])) = items_[c]
                /\ \A o \in Ids \ {c} : items_'[o] = items_[o]
           ELSE /\ ret'.rc = "CASS_ERROR_LIB_INVALID_VALUE_TYPE"
                /\ items_' = items_]_vars

C4_Witness ==
  /\ ret.op \in NestedAppends
  /\ ret.rc = "CASS_ERROR_LIB_INVALID_VALUE_TYPE"
  /\ Len(items_[ret.id]) >= 1

(* The length field in front of item k of collection c in the buffer of    *)
(* encode_with_length(version).                                            *)
LengthField(c, k, version) ==
  LET w == Width(c, version)
      cw == IF type(c) = "TUPLE" THEN 0 ELSE w
      off == SizeofInt32 + cw + ItemsSize(SubSeq(items_[c], 1, k - 1), w)
  IN  Field(encode_with_length(c, version).data, off, w)

(* C9: after a successful append of a nested collection C to P, the item   *)
(* of P is encode(C) as it was at the append, whatever is appended to C    *)
(* later, and at every protocol version the length field P writes in       *)
(* front of it is the length of that buffer.                               *)
C9_NestedSnapshot ==
  nested.parent # 0 =>
    /\ items_[nested.parent][nested.index] = nested.buf
    /\ \A v \in Versions :
         LengthField(nested.parent, nested.index, v) = Len(nested.buf)

-----------------------------------------------------------------------------
(* Properties of the reference counting (SpecLife) *)

(* C5: a collection from either constructor is owned by the caller with    *)
(* one reference: while it lives the count is the caller's reference plus  *)
(* those of the other owners and never below zero, it lives as long as the *)
(* caller holds its handle, and once the caller and every other owner      *)
(* have released it the count is zero and it is deleted.                   *)
C5_CallerOwnsOneReference ==
  \A c \in Ids :
    /\ ref_count_[c] >= 0
    /\ handle[c] => alive[c] = "live"
    /\ alive[c] = "live" =>
         ref_count_[c] = owners[c] + (IF handle[c] THEN 1 ELSE 0)
    /\ (alive[c] # "none" /\ ~handle[c] /\ owners[c] = 0) =>
         (alive[c] = "deleted" /\ ref_count_[c] = 0)

=============================================================================
